---- MODULE Spec2Model ----
(***************************************************************************)
(* Model of the JAMB AI assistant backend.                                 *)
(*                                                                         *)
(*   - backend/app.py: the FastAPI process: the lifespan (startup and      *)
(*     shutdown of the shared handles), the /ask handler and the /health   *)
(*     handler, run by one asyncio event loop.                             *)
(*   - backend/embed_data.py: the ingestion script                         *)
(*     ingest_data_to_mongodb.                                             *)
(*                                                                         *)
(* Texts (questions, intros, answers) are sequences of one-character       *)
(* strings, so that lower(), strip() and + are computed on characters.     *)
(***************************************************************************)
EXTENDS Integers, Sequences, FiniteSets, TLC

(***************************************************************************)
(* Bounds of the model.                                                    *)
(***************************************************************************)
\* Number of HTTP requests that arrive during one run of the process.
NumRequests == 2
\* Number of times the ingestion script is run against the same store.
MaxRuns == 2
\* Largest number of chunks the splitter yields for one document.
MaxChunksPerDoc == 2
\* Files in the input directory of the PDF extraction, pages in a PDF file.
MaxFiles == 2
MaxPages == 1
\* Documents one collection step of the data pipeline may report.
MaxCollected == 3
\* Length of the text given to the chunker, and the largest chunk_size.
MaxTextLen == 4
MaxChunkSize == 3

(***************************************************************************)
(* Python values.                                                          *)
(***************************************************************************)
\* The value of a module-level handle before the lifespan assigns it.
None == "None"

\* Optional[str]: a field that was not supplied, or a supplied text.
NoneStr == [given |-> FALSE, text |-> << >>]
SomeStr(t) == [given |-> TRUE, text |-> t]

\* Truthiness of an Optional[str]: None and "" are both falsy.
Truthy(o) == o.given /\ o.text /= << >>

UpperChars ==
    << "A", "B", "C", "D", "E", "F", "G", "H", "I", "J", "K", "L", "M",
       "N", "O", "P", "Q", "R", "S", "T", "U", "V", "W", "X", "Y", "Z" >>
LowerChars ==
    << "a", "b", "c", "d", "e", "f", "g", "h", "i", "j", "k", "l", "m",
       "n", "o", "p", "q", "r", "s", "t", "u", "v", "w", "x", "y", "z" >>

\* Upper-case letter -> its lower-case letter.
LowerOf ==
    [c \in {UpperChars[i] : i \in 1..Len(UpperChars)} |->
        LowerChars[CHOOSE i \in 1..Len(UpperChars) : UpperChars[i] = c]]

LowerChar(c) == IF c \in DOMAIN LowerOf THEN LowerOf[c] ELSE c

\* str.lower()
StrLower(s) == [i \in 1..Len(s) |-> LowerChar(s[i])]

IsSpace(c) == c \in {" ", "\t", "\n", "\r"}

RECURSIVE LStrip(_)
LStrip(s) ==
    IF s = << >> THEN s
    ELSE IF IsSpace(Head(s)) THEN LStrip(Tail(s)) ELSE s

RECURSIVE RStrip(_)
RStrip(s) ==
    IF s = << >> THEN s
    ELSE IF IsSpace(s[Len(s)]) THEN RStrip(SubSeq(s, 1, Len(s) - 1)) ELSE s

\* str.strip()
StrStrip(s) == RStrip(LStrip(s))

(***************************************************************************)
(* Literals of app.py.                                                     *)
(***************************************************************************)
WhoAreYouQ ==
    << "w", "h", "o", " ", "a", "r", "e", " ", "y", "o", "u", "?" >>
WhatAreYouQ ==
    << "w", "h", "a", "t", " ", "a", "r", "e", " ", "y", "o", "u", "?" >>

\* The list the /ask handler compares the normalised question with.
IdentityQuestions == {WhoAreYouQ, WhatAreYouQ}

IDENTITY_ANSWER ==
    << "I", " ", "a", "m", " ", "y", "o", "u", "r", " ", "J", "A", "M", "B", " ", "A", "s",
       "s", "i", "s", "t", "a", "n", "t", ",", " ", "a", "n", " ", "A", "I", " ", "d", "e",
       "s", "i", "g", "n", "e", "d", " ", "t", "o", " ", "p", "r", "o", "v", "i", "d", "e",
       " ", "i", "n", "f", "o", "r", "m", "a", "t", "i", "o", "n", " ", "b", "a", "s", "e",
       "d", " ", "o", "n", " ", "J", "A", "M", "B", " ", "d", "o", "c", "u", "m", "e", "n",
       "t", "s", "." >>

NO_ANSWER_FOUND ==
    << "N", "o", " ", "a", "n", "s", "w", "e", "r", " ", "f", "o", "u", "n", "d", "." >>

BLANK_LINE == << "\n", "\n" >>

NOT_INITIALIZED_DETAIL ==
    << "A", "I", " ", "A", "s", "s", "i", "s", "t", "a", "n", "t", " ", "n", "o", "t", " ",
       "i", "n", "i", "t", "i", "a", "l", "i", "z", "e", "d", ".", " ", "P", "l", "e", "a",
       "s", "e", " ", "c", "h", "e", "c", "k", " ", "s", "e", "r", "v", "e", "r", " ", "l",
       "o", "g", "s", " ", "f", "o", "r", " ", "s", "t", "a", "r", "t", "u", "p", " ", "e",
       "r", "r", "o", "r", "s", "." >>

PROCESSING_ERROR_PREFIX ==
    << "A", "n", " ", "e", "r", "r", "o", "r", " ", "o", "c", "c", "u", "r", "r", "e", "d",
       " ", "w", "h", "i", "l", "e", " ", "p", "r", "o", "c", "e", "s", "s", "i", "n", "g",
       " ", "y", "o", "u", "r", " ", "r", "e", "q", "u", "e", "s", "t", ":", " " >>

HTTP_OK == 200
HTTP_NOT_READY == 503
HTTP_PROCESSING_ERROR == 500

(***************************************************************************)
(* Inputs: the questions, intros and generated texts the model draws from. *)
(***************************************************************************)
QWhoCapital ==
    << "W", "h", "o", " ", "a", "r", "e", " ", "y", "o", "u", "?" >>
QWhatPadded ==
    << " ", " ", "W", "H", "A", "T", " ", "A", "R", "E", " ", "Y", "O", "U", "?", "\n" >>
QWhoBare ==
    << "W", "h", "o", " ", "a", "r", "e", " ", "y", "o", "u" >>
QNormal ==
    << "W", "h", "a", "t", " ", "i", "s", " ", "J", "A", "M", "B", "?" >>

Questions == {QWhoCapital, QWhatPadded, QWhoBare, QNormal}

IntroHello == << "H", "e", "l", "l", "o", "." >>

\* custom_intro of a request: absent, the empty string, or a text.
Intros == {NoneStr, SomeStr(<< >>), SomeStr(IntroHello)}

Gen1978 == << "1", "9", "7", "8" >>

\* Texts the language model may generate.
GenAnswers == {<< >>, Gen1978}

\* str(e) of the exceptions rag_chain.invoke may raise, by what failed: the
\* driver names the deployment it could not reach, the store rejects the
\* query, the language-model service is not there.
ExcStoreDown ==
    << "m", "o", "n", "g", "o", "d", "b", ":", "/", "/", "u", ":", "p", "w", "@", "d", "b",
       ":", "2", "7", "0", "1", "7", ":", " ", "t", "i", "m", "e", "d", " ", "o", "u",
       "t" >>
ExcRetriever ==
    << "$", "v", "e", "c", "t", "o", "r", "S", "e", "a", "r", "c", "h", ":", " ", "i", "n",
       "d", "e", "x", " ", "n", "o", "t", " ", "f", "o", "u", "n", "d" >>
ExcLLM ==
    << "o", "l", "l", "a", "m", "a", ":", " ", "c", "o", "n", "n", "e", "c", "t", "i", "o",
       "n", " ", "r", "e", "f", "u", "s", "e", "d" >>

(***************************************************************************)
(* State.                                                                  *)
(***************************************************************************)
VARIABLES
    \* --- environment of the API process ---
    MONGO_URI,       \* "set" or None: os.getenv("MONGO_URI")
    lifespanRun,     \* TRUE: the ASGI server runs the lifespan protocol
    storeReachable,  \* TRUE while the MongoDB deployment can be reached
    \* --- app.py module-level handles ---
    rag_chain,
    embeddings,
    vectordb,
    llm,
    mongo_client,
    test_response,   \* app.py:79  local of lifespan: the reply to the probe, or None
    \* --- lifespan coroutine ---
    lsPc,            \* position of the lifespan coroutine
    startupError,    \* the startup step that raised, or "none"
    clientOpened,    \* number of MongoClient objects constructed
    clientClosed,    \* number of MongoClient.close() calls
    \* --- event loop and requests ---
    loopOwner,       \* request whose handler is running on the event loop, 0: none
    req,             \* request id -> request run
    \* --- ingestion script (embed_data.py) ---
    ingUri,          \* "set" or None: os.getenv("MONGO_URI") of the script
    ingPc,           \* position of ingest_data_to_mongodb
    chunksOf,        \* source -> number of chunks split_documents yields
    pending,         \* chunks of the current run not yet written
    collection,      \* the MongoDB collection: sequence of stored records
    nextId,          \* next ObjectId the driver generates
    runs,            \* runs of the script started so far
    okRuns,          \* runs that wrote every chunk
    failedRuns,      \* runs that hit a storage failure
    ingClient,       \* "None", "open" or "closed": the script's MongoClient
    \* --- a run of load_and_extract_pdfs (extract_data.py) ---
    inputDirExists,  \* os.path.exists(actual_input_dir)
    listing,         \* os.listdir(actual_input_dir)
    pdfFiles,        \* what PdfReader finds in each file: it raises, or the pages
    writeFails,      \* the files whose .txt cannot be opened for writing
    exPc,            \* "off", "start", "loop", "returned", "raised"
    nextFile,        \* position of the for loop in the listing
    extracted_documents,
    savedTexts,      \* the .txt files written to the output directory
    \* --- a run of JambDataPipeline.run_pipeline (jamb_data_pipeline.py) ---
    plPc,            \* the statement run_pipeline is at, "off" when not run
    mongo_uri,       \* JambDataPipeline.mongo_uri
    db,              \* JambDataPipeline.db: None or "JambDb"
    jambClient,      \* JambDb.client: None, "open" or "closed"
    collector,       \* JambDataPipeline.collector
    extractor,       \* JambDataPipeline.extractor
    trace,           \* the calls made so far, each with whether it succeeded
    collected,       \* the counts the two collection steps reported
    result,          \* what run_pipeline returned: None until it returns
    \* --- a run of chunk_text_file (Extracted-Data/chunk-text.py) ---
    chPc,            \* "off", "start", "write", "returned"
    fileText,        \* text: the content of the file at filepath
    chunk_size,
    chunk_overlap,
    chunks,          \* page_content of the Documents of create_documents([text])
    chunkFiles       \* the chunk files written so far

apiVars ==
    << MONGO_URI, lifespanRun, test_response, storeReachable, rag_chain,
       embeddings, vectordb, llm, mongo_client, lsPc, startupError,
       clientOpened, clientClosed, loopOwner, req >>

ingVars ==
    << ingUri, ingPc, chunksOf, pending, collection, nextId, runs, okRuns, failedRuns,
       ingClient >>

extractVars ==
    << inputDirExists, listing, pdfFiles, writeFails, exPc, nextFile,
       extracted_documents, savedTexts >>

\* The state of the batch tools, which run outside the API process and the
\* ingestion script.
pipeVars ==
    << plPc, mongo_uri, db, jambClient, collector, extractor, trace, collected, result >>

chunkVars == << chPc, fileText, chunk_size, chunk_overlap, chunks, chunkFiles >>

batchVars == << extractVars, pipeVars, chunkVars >>

vars == << apiVars, ingVars, batchVars >>

Requests == 1..NumRequests

\* A request slot before the request arrives.
NoRequest ==
    [ kind |-> "none",
      question |-> << >>,
      custom_intro |-> NoneStr,
      pc |-> "idle",
      status |-> 0,               \* HTTP status of the response, 0: no response yet
      answer |-> << >>,           \* AnswerResponse.answer
      rag_pipeline_status |-> "",
      mongodb_status |-> "",
      retrieverCalls |-> 0,
      llmCalls |-> 0,
      retrieval |-> "none",       \* "none", "ok", "raised"
      generation |-> "none",      \* "none", "ok", "nokey", "raised"
      generated |-> << >>,        \* the text the language model generated
      storeSeen |-> "none",       \* what the handler's store call met: "up", "down"
      error |-> "none",           \* "none", "HTTPException", "unhandled"
      detail |-> << >>,           \* HTTPException.detail of the response
      hangs |-> FALSE ]           \* the external call in progress never returns

(***************************************************************************)
(* The decisions of the /ask and /health handlers, as pure operators.      *)
(***************************************************************************)
\* Mutant of NotInitialized: the readiness check is left out.
NotInitialized_Skipped(chain) == FALSE

\* app.py:139  if rag_chain is None
NotInitialized(chain) == chain = None

\* Mutant of IsIdentityQuestion: the question is stripped but not lower-cased.
IsIdentityQuestion_CaseSensitive(question) == StrStrip(question) \in IdentityQuestions

\* app.py:143  request.question.lower().strip() in ["who are you?", "what are you?"]
IsIdentityQuestion(question) == StrStrip(StrLower(question)) \in IdentityQuestions

\* app.py:148  response.get("answer", "No answer found.")
ResponseAnswer(generation, generated) ==
    IF generation = "ok" THEN generated ELSE NO_ANSWER_FOUND

\* Mutant of ComposeAnswer: any intro that is not None is prepended.
ComposeAnswer_IsNotNone(custom_intro, answer) ==
    IF custom_intro.given THEN custom_intro.text \o BLANK_LINE \o answer ELSE answer

\* app.py:149-150  if request.custom_intro: answer = custom_intro + "\n\n" + answer
ComposeAnswer(custom_intro, answer) ==
    IF Truthy(custom_intro) THEN custom_intro.text \o BLANK_LINE \o answer ELSE answer

\* app.py:155  detail=f"An error occurred while processing your request: {e}"
ExceptDetail(e) == PROCESSING_ERROR_PREFIX \o e

\* The exception the retriever raises.
RetrieverException(reachable) == IF reachable THEN ExcRetriever ELSE ExcStoreDown

\* app.py:140  the status of the HTTPException raised before the try block
NotReadyStatus == HTTP_NOT_READY

\* app.py:153-155  the status of the HTTPException raised by the except clause
ExceptStatus == HTTP_PROCESSING_ERROR

\* Mutant of ChainAfterRetrieval: the document chain runs whatever the retriever did.
ChainAfterRetrieval_Unconditional(retrieval) == "synthesizing"

\* app.py:96, 146  create_retrieval_chain(retriever, document_chain): the chain
\* runs the retriever first and hands its documents to the document chain; an
\* exception of the retriever leaves invoke before the document chain runs.
ChainAfterRetrieval(retrieval) ==
    IF retrieval = "ok" THEN "synthesizing" ELSE "raise"

\* app.py:163-166
RagPipelineStatus(chain) ==
    IF chain /= None THEN "initialized" ELSE "not_initialized"

\* app.py:167-170  mongo_client and mongo_client.admin.command('ping')
MongodbStatus(client, pingTruthy) ==
    IF client /= None /\ pingTruthy THEN "connected" ELSE "disconnected"

\* Outcomes of the retriever's similarity query against the store.
RetrievalOutcomes(reachable) ==
    IF reachable THEN {"ok", "raised"} ELSE {"raised"}

\* Outcomes of admin.command('ping'): a truthy reply from a reachable server;
\* from an unreachable one the call raises or yields nothing truthy.
PingOutcomes(reachable) ==
    IF reachable THEN {"truthy"} ELSE {"raised", "falsy"}

\* The server hands requests to the handlers while the lifespan is between its
\* yield and its shutdown code, or at once when it runs no lifespan at all.
Accepting == IF lifespanRun THEN lsPc = "serving" ELSE TRUE

(***************************************************************************)
(* The lifespan of the application (app.py:40-108).                        *)
(***************************************************************************)
\* Mutant of OnStartupException: the exception is logged and swallowed, and
\* the lifespan goes on to its yield.
OnStartupException_Swallowed == "serving"

\* app.py:81-83, 99-101  the except clauses of the startup code re-raise: the
\* lifespan ends with the exception and never reaches its yield.
OnStartupException == "failed"

\* A startup step raised.
StartupRaises(step) ==
    /\ lsPc' = OnStartupException
    /\ startupError' = step

\* app.py:50-52
LifespanEnter ==
    /\ lifespanRun
    /\ lsPc = "loaded"
    /\ IF MONGO_URI = None
       THEN /\ lsPc' = "failed"
            /\ startupError' = "MONGO_URI"
       ELSE /\ lsPc' = "embeddings"
            /\ UNCHANGED startupError
    /\ UNCHANGED << MONGO_URI, lifespanRun, test_response, storeReachable,
                    rag_chain, embeddings, vectordb, llm, mongo_client,
                    clientOpened, clientClosed, loopOwner, req >>
    /\ UNCHANGED << ingVars, batchVars >>

\* app.py:55-57
LoadEmbeddings ==
    /\ lsPc = "embeddings"
    /\ \E ok \in BOOLEAN :
          IF ok
          THEN /\ embeddings' = "HuggingFaceEmbeddings"
               /\ lsPc' = "mongo"
               /\ UNCHANGED startupError
          ELSE /\ StartupRaises("embeddings")
               /\ UNCHANGED embeddings
    /\ UNCHANGED << MONGO_URI, lifespanRun, test_response, storeReachable,
                    rag_chain, vectordb, llm, mongo_client, clientOpened,
                    clientClosed, loopOwner, req >>
    /\ UNCHANGED << ingVars, batchVars >>

\* app.py:59-61
ConnectMongo ==
    /\ lsPc = "mongo"
    /\ \E ok \in BOOLEAN :
          IF ok
          THEN /\ mongo_client' = "MongoClient"
               /\ clientOpened' = clientOpened + 1
               /\ lsPc' = "vectordb"
               /\ UNCHANGED startupError
          ELSE /\ StartupRaises("mongo_client")
               /\ UNCHANGED << mongo_client, clientOpened >>
    /\ UNCHANGED << MONGO_URI, lifespanRun, test_response, storeReachable,
                    rag_chain, embeddings, vectordb, llm, clientClosed,
                    loopOwner, req >>
    /\ UNCHANGED << ingVars, batchVars >>

\* app.py:64-73
BuildVectorStore ==
    /\ lsPc = "vectordb"
    /\ \E ok \in BOOLEAN :
          IF ok
          THEN /\ vectordb' = "MongoDBAtlasVectorSearch"
               /\ lsPc' = "llm"
               /\ UNCHANGED startupError
          ELSE /\ StartupRaises("vectordb")
               /\ UNCHANGED vectordb
    /\ UNCHANGED << MONGO_URI, lifespanRun, test_response, storeReachable,
                    rag_chain, embeddings, llm, mongo_client, clientOpened,
                    clientClosed, loopOwner, req >>
    /\ UNCHANGED << ingVars, batchVars >>

\* app.py:75-76
InitLLM ==
    /\ lsPc = "llm"
    /\ \E ok \in BOOLEAN :
          IF ok
          THEN /\ llm' = "Ollama"
               /\ lsPc' = "probe"
               /\ UNCHANGED startupError
          ELSE /\ StartupRaises("llm")
               /\ UNCHANGED llm
    /\ UNCHANGED << MONGO_URI, lifespanRun, test_response, storeReachable,
                    rag_chain, embeddings, vectordb, mongo_client, clientOpened,
                    clientClosed, loopOwner, req >>
    /\ UNCHANGED << ingVars, batchVars >>

\* Mutant of AfterProbe: the except clause of the probe logs the error and
\* does not re-raise it.
AfterProbe_ErrorIgnored(ok) == "chain"

\* app.py:78-83  where the lifespan goes after llm.invoke("Hi"): on to the
\* chain, or out through the re-raise of the except clause
AfterProbe(ok) == IF ok THEN "chain" ELSE OnStartupException

\* app.py:78-83  llm.invoke("Hi")
ProbeLLM ==
    /\ lsPc = "probe"
    /\ \E ok \in BOOLEAN :
          /\ lsPc' = AfterProbe(ok)
          /\ test_response' = IF ok THEN "Hello" ELSE None
          /\ startupError' = IF ok THEN startupError ELSE "probe"
    /\ UNCHANGED << MONGO_URI, lifespanRun, storeReachable, rag_chain, embeddings,
                    vectordb, llm, mongo_client, clientOpened, clientClosed,
                    loopOwner, req >>
    /\ UNCHANGED << ingVars, batchVars >>

\* app.py:85-103  the prompt, the document chain, the retrieval chain, the yield
BuildChain ==
    /\ lsPc = "chain"
    /\ \E ok \in BOOLEAN :
          IF ok
          THEN /\ rag_chain' = "RetrievalChain"
               /\ lsPc' = "serving"
               /\ UNCHANGED startupError
          ELSE /\ StartupRaises("rag_chain")
               /\ UNCHANGED rag_chain
    /\ UNCHANGED << MONGO_URI, lifespanRun, test_response, storeReachable,
                    embeddings, vectordb, llm, mongo_client, clientOpened,
                    clientClosed, loopOwner, req >>
    /\ UNCHANGED << ingVars, batchVars >>

\* app.py:105-108  the code after the yield; it runs on the event loop, so not
\* while a handler holds the loop.
Shutdown ==
    /\ lsPc = "serving"
    /\ loopOwner = 0
    /\ lsPc' = "stopped"
    /\ IF mongo_client /= None
       THEN clientClosed' = clientClosed + 1
       ELSE UNCHANGED clientClosed
    /\ UNCHANGED << MONGO_URI, lifespanRun, test_response, storeReachable,
                    rag_chain, embeddings, vectordb, llm, mongo_client,
                    startupError, clientOpened, loopOwner, req >>
    /\ UNCHANGED << ingVars, batchVars >>

\* The MongoDB deployment becomes unreachable, or reachable again.
StoreFlips ==
    /\ storeReachable' = ~storeReachable
    /\ UNCHANGED << MONGO_URI, lifespanRun, test_response, rag_chain,
                    embeddings, vectordb, llm, mongo_client, lsPc, startupError,
                    clientOpened, clientClosed, loopOwner, req >>
    /\ UNCHANGED << ingVars, batchVars >>

(***************************************************************************)
(* Requests.  Every handler of app.py is an `async def` that awaits        *)
(* nothing: from its first statement to its return it runs on the event    *)
(* loop, the calls to the chain and to the driver included.                *)
(***************************************************************************)
apiFrame ==
    << MONGO_URI, lifespanRun, test_response, storeReachable, rag_chain,
       embeddings, vectordb, llm, mongo_client, lsPc, startupError,
       clientOpened, clientClosed >>

\* Mutant of HandlersLeaveGlobals: a handler that finds work to do drops the
\* chain so that it is rebuilt.
HandlersLeaveGlobals_ChainReset ==
    /\ rag_chain' = None
    /\ UNCHANGED << MONGO_URI, lifespanRun, test_response, storeReachable,
                    embeddings, vectordb, llm, mongo_client, lsPc, startupError,
                    clientOpened, clientClosed >>

\* app.py:134-171  ask_question and health_check have no `global` statement
\* and assign none of the module-level names.
HandlersLeaveGlobals == UNCHANGED apiFrame

\* The handler of request r returns or raises: the response is sent and the
\* event loop is free again.
Respond(r, fields) ==
    /\ req' = [req EXCEPT ![r] = fields @@ [pc |-> "done"] @@ req[r]]
    /\ loopOwner' = 0

\* A client sends POST /ask or GET /health.
Arrive(r) ==
    /\ Accepting
    /\ req[r].pc = "idle"
    /\ IF r = 1 THEN TRUE ELSE req[r - 1].pc /= "idle"
    /\ \/ \E q \in Questions, ci \in Intros :
             req' = [req EXCEPT ![r] =
                        [kind |-> "ask", question |-> q, custom_intro |-> ci,
                         pc |-> "queued"] @@ req[r]]
       \/ req' = [req EXCEPT ![r] = [kind |-> "health", pc |-> "queued"] @@ req[r]]
    /\ UNCHANGED << apiFrame, loopOwner >>
    /\ UNCHANGED << ingVars, batchVars >>

\* app.py:134-146  ask_question up to the call of rag_chain.invoke
AskBegin(r) ==
    /\ Accepting
    /\ loopOwner = 0
    /\ req[r].pc = "queued"
    /\ req[r].kind = "ask"
    /\ IF NotInitialized(rag_chain)
       THEN Respond(r, [status |-> NotReadyStatus, error |-> "HTTPException",
                        detail |-> NOT_INITIALIZED_DETAIL])
       ELSE IF IsIdentityQuestion(req[r].question)
       THEN Respond(r, [status |-> HTTP_OK, answer |-> IDENTITY_ANSWER])
       ELSE /\ \E h \in BOOLEAN :
                   req' = [req EXCEPT ![r] =
                              [pc |-> "retrieving", hangs |-> h,
                               retrieverCalls |-> @.retrieverCalls + 1]
                              @@ req[r]]
            /\ loopOwner' = r
    /\ HandlersLeaveGlobals
    /\ UNCHANGED << ingVars, batchVars >>

\* app.py:146  rag_chain.invoke: the retriever returns or raises.  No timeout
\* is set on the client (app.py:60) or on the call, so a call that hangs is
\* never abandoned.
RetrieverReturns(r) ==
    /\ req[r].pc = "retrieving"
    /\ loopOwner = r
    /\ ~req[r].hangs
    /\ \E out \in RetrievalOutcomes(storeReachable), h \in BOOLEAN :
          LET seen == IF storeReachable THEN "up" ELSE "down" IN
          IF ChainAfterRetrieval(out) = "synthesizing"
          THEN /\ req' = [req EXCEPT ![r] =
                             [pc |-> "synthesizing", retrieval |-> out, hangs |-> h,
                              storeSeen |-> seen, llmCalls |-> @.llmCalls + 1]
                             @@ req[r]]
               /\ UNCHANGED loopOwner
          ELSE /\ ~h
               /\ Respond(r, [status |-> ExceptStatus, error |-> "HTTPException",
                              detail |-> ExceptDetail(RetrieverException(storeReachable)),
                              retrieval |-> out, storeSeen |-> seen])
    /\ HandlersLeaveGlobals
    /\ UNCHANGED << ingVars, batchVars >>

\* app.py:146-155  the document chain returns or raises, then the answer is
\* built.  No timeout is set on the Ollama client (app.py:76).
LLMReturns(r) ==
    /\ req[r].pc = "synthesizing"
    /\ loopOwner = r
    /\ ~req[r].hangs
    /\ \/ \E text \in GenAnswers :
             Respond(r, [status |-> HTTP_OK, generation |-> "ok", generated |-> text,
                         answer |-> ComposeAnswer(req[r].custom_intro,
                                                  ResponseAnswer("ok", text))])
       \/ Respond(r, [status |-> HTTP_OK, generation |-> "nokey",
                      answer |-> ComposeAnswer(req[r].custom_intro,
                                               ResponseAnswer("nokey", << >>))])
       \/ Respond(r, [status |-> ExceptStatus, error |-> "HTTPException",
                      detail |-> ExceptDetail(ExcLLM), generation |-> "raised"])
    /\ HandlersLeaveGlobals
    /\ UNCHANGED << ingVars, batchVars >>

\* app.py:157-167  health_check up to the ping
HealthBegin(r) ==
    /\ Accepting
    /\ loopOwner = 0
    /\ req[r].pc = "queued"
    /\ req[r].kind = "health"
    /\ IF mongo_client = None
       THEN Respond(r, [status |-> HTTP_OK,
                        rag_pipeline_status |-> RagPipelineStatus(rag_chain),
                        mongodb_status |-> MongodbStatus(mongo_client, FALSE)])
       ELSE /\ req' = [req EXCEPT ![r] =
                          [pc |-> "pinging",
                           rag_pipeline_status |-> RagPipelineStatus(rag_chain)]
                          @@ req[r]]
            /\ loopOwner' = r
    /\ HandlersLeaveGlobals
    /\ UNCHANGED << ingVars, batchVars >>

\* app.py:167-171  mongo_client.admin.command('ping') returns or raises; no
\* except clause surrounds it, so an exception leaves the handler.
PingReturns(r) ==
    /\ req[r].pc = "pinging"
    /\ loopOwner = r
    /\ \E out \in PingOutcomes(storeReachable) :
          LET seen == IF storeReachable THEN "up" ELSE "down" IN
          IF out = "raised"
          THEN Respond(r, [status |-> HTTP_PROCESSING_ERROR, error |-> "unhandled",
                           storeSeen |-> seen])
          ELSE Respond(r, [status |-> HTTP_OK, storeSeen |-> seen,
                           mongodb_status |->
                               MongodbStatus(mongo_client, out = "truthy")])
    /\ HandlersLeaveGlobals
    /\ UNCHANGED << ingVars, batchVars >>

(***************************************************************************)
(* The ingestion script (embed_data.py).                                   *)
(***************************************************************************)
\* embed_data.py:26-144  the keys of JAMB_CONTENT, in dictionary order
JAMB_CONTENT ==
    << "jamb_overview_mandate.txt", "jamb_history_evolution.txt",
       "jamb_examination_structure.txt", "jamb_admission_process.txt",
       "jamb_latest_updates_2025.txt" >>

Sources == {JAMB_CONTENT[i] : i \in 1..Len(JAMB_CONTENT)}

\* embed_data.py:146-152  one Document per entry, its source the file name
load_documents_from_memory == JAMB_CONTENT

RECURSIVE ChunksOfDocuments(_, _)
\* embed_data.py:171-175  split_documents: the chunks of every document, in
\* document order, each carrying the metadata of its document.
ChunksOfDocuments(documents, counts) ==
    IF documents = << >> THEN << >>
    ELSE [k \in 1..counts[Head(documents)] |->
             [source |-> Head(documents), ordinal |-> k]]
         \o ChunksOfDocuments(Tail(documents), counts)

\* Number of records of the collection whose metadata names the source.
StoredCount(coll, source) ==
    Cardinality({i \in 1..Len(coll) : coll[i].source = source})

\* embed_data.py:188-193  from_documents is given no ids and deletes nothing:
\* every chunk is inserted as a new record under a fresh ObjectId.
InsertRecord(coll, chunk, id) ==
    Append(coll, [source |-> chunk.source, ordinal |-> chunk.ordinal, id |-> id])

ingFrame == << ingUri, chunksOf >>

\* embed_data.py:159-176  a run of the script starts
IngestStart ==
    /\ ingPc = "idle"
    /\ runs < MaxRuns
    /\ runs' = runs + 1
    /\ ingClient' = None
    /\ IF ingUri = None
       THEN /\ ingPc' = "idle"
            /\ pending' = << >>
       ELSE /\ ingPc' = "embeddings"
            /\ pending' = ChunksOfDocuments(load_documents_from_memory, chunksOf)
    /\ UNCHANGED << ingFrame, collection, nextId, okRuns, failedRuns >>
    /\ UNCHANGED << apiVars, batchVars >>

\* embed_data.py:178-183  outside the try block: an exception ends the script
IngestLoadEmbeddings ==
    /\ ingPc = "embeddings"
    /\ \E ok \in BOOLEAN :
          IF ok
          THEN /\ ingPc' = "connect"
               /\ UNCHANGED pending
          ELSE /\ ingPc' = "idle"
               /\ pending' = << >>
    /\ UNCHANGED << ingFrame, collection, nextId, runs, okRuns, failedRuns, ingClient >>
    /\ UNCHANGED << apiVars, batchVars >>

\* embed_data.py:184-187, 196-207
IngestConnect ==
    /\ ingPc = "connect"
    /\ \E ok \in BOOLEAN :
          IF ok
          THEN /\ ingClient' = "open"
               /\ ingPc' = "insert"
               /\ UNCHANGED << pending, failedRuns >>
          ELSE /\ ingPc' = "idle"
               /\ pending' = << >>
               /\ failedRuns' = failedRuns + 1
               /\ UNCHANGED ingClient
    /\ UNCHANGED << ingFrame, collection, nextId, runs, okRuns >>
    /\ UNCHANGED << apiVars, batchVars >>

\* embed_data.py:188-193  the store writes the next chunk
IngestInsert ==
    /\ ingPc = "insert"
    /\ pending /= << >>
    /\ collection' = InsertRecord(collection, Head(pending), nextId)
    /\ nextId' = nextId + 1
    /\ pending' = Tail(pending)
    /\ UNCHANGED << ingFrame, ingPc, runs, okRuns, failedRuns, ingClient >>
    /\ UNCHANGED << apiVars, batchVars >>

\* embed_data.py:196-207  from_documents raises before all chunks are written:
\* the except clause returns, the finally clause closes the client.
IngestStorageFailure ==
    /\ ingPc = "insert"
    /\ pending /= << >>
    /\ ingPc' = "idle"
    /\ pending' = << >>
    /\ failedRuns' = failedRuns + 1
    /\ ingClient' = "closed"
    /\ UNCHANGED << ingFrame, collection, nextId, runs, okRuns >>
    /\ UNCHANGED << apiVars, batchVars >>

\* embed_data.py:194, 204-209  from_documents returned
IngestFinish ==
    /\ ingPc = "insert"
    /\ pending = << >>
    /\ ingPc' = "idle"
    /\ okRuns' = okRuns + 1
    /\ ingClient' = "closed"
    /\ UNCHANGED << ingFrame, collection, nextId, runs, failedRuns, pending >>
    /\ UNCHANGED << apiVars, batchVars >>

(***************************************************************************)
(* The PDF extraction (extract_data.py; Extracted-Data/extracted_pdfs.py   *)
(* has the same loop).                                                     *)
(***************************************************************************)
DOT_PDF == << ".", "p", "d", "f" >>
DOT_TXT == << ".", "t", "x", "t" >>
NEWLINE == << "\n" >>

\* The sequences over S of length at most n.
SeqsUpTo(S, n) == UNION {[1..k -> S] : k \in 0..n}

\* str.endswith
EndsWith(s, suffix) ==
    /\ Len(s) >= Len(suffix)
    /\ SubSeq(s, Len(s) - Len(suffix) + 1, Len(s)) = suffix

\* os.path.splitext(filename)[0]: the name up to its last dot, the whole name
\* when it has no dot after a character that is not a dot.
SplitextRoot(filename) ==
    LET dots == {i \in 1..Len(filename) :
                    /\ filename[i] = "."
                    /\ \E j \in 1..(i - 1) : filename[j] /= "."}
    IN  IF dots = {} THEN filename
        ELSE SubSeq(filename, 1, (CHOOSE i \in dots : \A j \in dots : j <= i) - 1)

\* The names a listing may hold.
FileA == << "a", ".", "p", "d", "f" >>
FileB == << "b", ".", "p", "d", "f" >>
FileNotes == << "n", ".", "t", "x", "t" >>
FileNames == {FileA, FileB, FileNotes}
PdfNames == {f \in FileNames : EndsWith(f, DOT_PDF)}

\* What page.extract_text() may return.
PageTexts == {<< >>, << "x" >>}

\* What reading a PDF file may do: raise, or yield the texts of its pages.
PdfOutcomes ==
    {[raises |-> TRUE, pages |-> << >>]}
        \cup {[raises |-> FALSE, pages |-> p] : p \in SeqsUpTo(PageTexts, MaxPages)}

\* The directory listings: names in any order, no name twice.
Listings ==
    {l \in SeqsUpTo(FileNames, MaxFiles) :
        \A i, j \in 1..Len(l) : i /= j => l[i] /= l[j]}

\* extract_data.py:10-11  text += page.extract_text() + "\n", page by page
RECURSIVE TextOfPages(_)
TextOfPages(pages) ==
    IF pages = << >> THEN << >>
    ELSE TextOfPages(SubSeq(pages, 1, Len(pages) - 1))
             \o pages[Len(pages)] \o NEWLINE

\* extract_data.py:5-15  the text of the file, None when reading it raised
extract_text_from_pdf(pdf) ==
    IF pdf.raises THEN NoneStr ELSE SomeStr(TextOfPages(pdf.pages))

\* extract_data.py:44  if extracted_text:
KeepsDocument(extracted_text) == Truthy(extracted_text)

\* extract_data.py:51
Document(page_content, source) ==
    [page_content |-> page_content, metadata |-> [source |-> source]]

\* extract_data.py:29-36  the output directory is made, the input directory
\* is looked for
ExtractStart ==
    /\ exPc = "start"
    /\ IF inputDirExists
       THEN exPc' = "loop"
       ELSE exPc' = "returned"
    /\ UNCHANGED << inputDirExists, listing, pdfFiles, writeFails, nextFile,
                    extracted_documents, savedTexts >>
    /\ UNCHANGED << apiVars, ingVars, pipeVars, chunkVars >>

\* extract_data.py:38-53  one pass of the for loop.  The open() of line 47 is
\* inside no try block: when it raises, the exception leaves the function.
ExtractFile ==
    /\ exPc = "loop"
    /\ nextFile <= Len(listing)
    /\ LET filename == listing[nextFile]
           extracted_text == extract_text_from_pdf(pdfFiles[filename])
       IN  IF ~EndsWith(filename, DOT_PDF)
           THEN /\ nextFile' = nextFile + 1
                /\ UNCHANGED << exPc, extracted_documents, savedTexts >>
           ELSE IF ~KeepsDocument(extracted_text)
           THEN /\ nextFile' = nextFile + 1
                /\ UNCHANGED << exPc, extracted_documents, savedTexts >>
           ELSE IF filename \in writeFails
           THEN /\ exPc' = "raised"
                /\ UNCHANGED << nextFile, extracted_documents, savedTexts >>
           ELSE /\ savedTexts' = savedTexts \cup
                        {[name |-> SplitextRoot(filename) \o DOT_TXT,
                          text |-> extracted_text.text]}
                /\ extracted_documents' =
                        Append(extracted_documents,
                               Document(extracted_text.text, filename))
                /\ nextFile' = nextFile + 1
                /\ UNCHANGED exPc
    /\ UNCHANGED << inputDirExists, listing, pdfFiles, writeFails >>
    /\ UNCHANGED << apiVars, ingVars, pipeVars, chunkVars >>

\* extract_data.py:54
ExtractReturn ==
    /\ exPc = "loop"
    /\ nextFile > Len(listing)
    /\ exPc' = "returned"
    /\ UNCHANGED << inputDirExists, listing, pdfFiles, writeFails, nextFile,
                    extracted_documents, savedTexts >>
    /\ UNCHANGED << apiVars, ingVars, pipeVars, chunkVars >>

\* No extraction is run.
ExtractIdle ==
    /\ inputDirExists = FALSE
    /\ listing = << >>
    /\ pdfFiles = [f \in PdfNames |-> [raises |-> TRUE, pages |-> << >>]]
    /\ writeFails = {}
    /\ exPc = "off"
    /\ nextFile = 1
    /\ extracted_documents = << >>
    /\ savedTexts = {}

(***************************************************************************)
(* The data collection pipeline (processing_data/jamb_data_pipeline.py,    *)
(* processing_data/mongodb_connection_setup.py).                           *)
(***************************************************************************)
\* jamb_data_pipeline.py:13  the default of os.getenv("MONGO_URI", ...)
DEFAULT_MONGO_URI == "mongodb://mongodb:27017"

NothingCollected == [web |-> 0, pdf |-> 0]

\* One call of the run, with whether it returned a true value.
Call(name, ok) == [call |-> name, ok |-> ok]

\* What JambDb.connect may meet: the ping answers; the deployment cannot be
\* reached (ConnectionFailure, ServerSelectionTimeoutError: caught, False);
\* MongoClient raises something else (not caught by connect).
ConnectOutcomes == {"ok", "unreachable", "raised"}

\* mongodb_connection_setup.py:25-38  JambDb.client after connect: the
\* client is assigned before the ping, so it is there unless MongoClient
\* itself raised.
ClientAfterConnect(outcome) == IF outcome = "raised" THEN None ELSE "open"

\* Mutant of AfterSetupDatabase: the result of setup_database is not tested.
AfterSetupDatabase_Unchecked(ok) == "setup_collector"

\* jamb_data_pipeline.py:88-89  if not self.setup_database(): return False
AfterSetupDatabase(ok) == IF ok THEN "setup_collector" ELSE "finally"

\* jamb_data_pipeline.py:23-27  setup_database: JambDb(...), self.db.connect()
PipeConnect ==
    /\ plPc = "setup_database"
    /\ db' = "JambDb"
    /\ \E outcome \in ConnectOutcomes :
          /\ jambClient' = ClientAfterConnect(outcome)
          /\ trace' = Append(trace, Call("connect", outcome = "ok"))
          /\ IF outcome = "ok"
             THEN /\ plPc' = "create_data_collections"
                  /\ UNCHANGED result
             ELSE IF outcome = "unreachable"
             THEN /\ plPc' = AfterSetupDatabase(FALSE)
                  /\ result' = IF AfterSetupDatabase(FALSE) = "finally"
                                THEN FALSE ELSE result
             ELSE /\ plPc' = "finally"
                  /\ result' = FALSE
    /\ UNCHANGED << mongo_uri, collector, extractor, collected >>
    /\ UNCHANGED << apiVars, ingVars, extractVars, chunkVars >>

\* jamb_data_pipeline.py:30-35  setup_database: create_data_collections, which
\* catches every exception and returns False (mongodb_connection_setup.py:40-70)
PipeCreateCollections ==
    /\ plPc = "create_data_collections"
    /\ \E ok \in BOOLEAN :
          /\ trace' = Append(trace, Call("create_data_collections", ok))
          /\ plPc' = AfterSetupDatabase(ok)
          /\ result' = IF AfterSetupDatabase(ok) = "finally" THEN FALSE ELSE result
    /\ UNCHANGED << mongo_uri, db, jambClient, collector, extractor, collected >>
    /\ UNCHANGED << apiVars, ingVars, extractVars, chunkVars >>

\* jamb_data_pipeline.py:37-45, 91-92  setup_collector returns True, or the
\* constructor raises into the except clause of run_pipeline
PipeSetupCollector ==
    /\ plPc = "setup_collector"
    /\ \E ok \in BOOLEAN :
          /\ trace' = Append(trace, Call("setup_collector", ok))
          /\ IF ok
             THEN /\ collector' = "JambDataCollector"
                  /\ plPc' = "setup_extractor"
                  /\ UNCHANGED result
             ELSE /\ plPc' = "finally"
                  /\ result' = FALSE
                  /\ UNCHANGED collector
    /\ UNCHANGED << mongo_uri, db, jambClient, extractor, collected >>
    /\ UNCHANGED << apiVars, ingVars, extractVars, chunkVars >>

\* jamb_data_pipeline.py:47-52, 94-95
PipeSetupExtractor ==
    /\ plPc = "setup_extractor"
    /\ \E ok \in BOOLEAN :
          /\ trace' = Append(trace, Call("setup_extractor", ok))
          /\ IF ok
             THEN /\ extractor' = "JambQuestionExtractor"
                  /\ plPc' = "collect_web_data"
                  /\ UNCHANGED result
             ELSE /\ plPc' = "finally"
                  /\ result' = FALSE
                  /\ UNCHANGED extractor
    /\ UNCHANGED << mongo_uri, db, jambClient, collector, collected >>
    /\ UNCHANGED << apiVars, ingVars, extractVars, chunkVars >>

\* jamb_data_pipeline.py:54-62, 97  collect_web_data reports a count, or it
\* raises into the except clause of run_pipeline
PipeCollectWeb ==
    /\ plPc = "collect_web_data"
    /\ \/ \E collected_count \in 0..MaxCollected :
             /\ collected' = [collected EXCEPT !.web = collected_count]
             /\ trace' = Append(trace, Call("collect_web_data", TRUE))
             /\ plPc' = "collect_pdf_data"
             /\ UNCHANGED result
       \/ /\ trace' = Append(trace, Call("collect_web_data", FALSE))
          /\ plPc' = "finally"
          /\ result' = FALSE
          /\ UNCHANGED collected
    /\ UNCHANGED << mongo_uri, db, jambClient, collector, extractor >>
    /\ UNCHANGED << apiVars, ingVars, extractVars, chunkVars >>

\* jamb_data_pipeline.py:64-72, 99
PipeCollectPdf ==
    /\ plPc = "collect_pdf_data"
    /\ \/ \E collected_count \in 0..MaxCollected :
             /\ collected' = [collected EXCEPT !.pdf = collected_count]
             /\ trace' = Append(trace, Call("collect_pdf_data", TRUE))
             /\ plPc' = "organize_data"
             /\ UNCHANGED result
       \/ /\ trace' = Append(trace, Call("collect_pdf_data", FALSE))
          /\ plPc' = "finally"
          /\ result' = FALSE
          /\ UNCHANGED collected
    /\ UNCHANGED << mongo_uri, db, jambClient, collector, extractor >>
    /\ UNCHANGED << apiVars, ingVars, extractVars, chunkVars >>

\* jamb_data_pipeline.py:74-81, 101-104  organize_data catches its exception;
\* its result is not looked at and the run returns True
PipeOrganize ==
    /\ plPc = "organize_data"
    /\ \E ok \in BOOLEAN : trace' = Append(trace, Call("organize_data", ok))
    /\ plPc' = "finally"
    /\ result' = TRUE
    /\ UNCHANGED << mongo_uri, db, jambClient, collector, extractor, collected >>
    /\ UNCHANGED << apiVars, ingVars, extractVars, chunkVars >>

\* jamb_data_pipeline.py:110-112 and mongodb_connection_setup.py:109-112  the
\* finally clause, then the return
PipeFinally ==
    /\ plPc = "finally"
    /\ IF db /= None
       THEN /\ trace' = Append(trace, Call("close_connection", TRUE))
            /\ jambClient' = IF jambClient /= None THEN "closed" ELSE jambClient
       ELSE UNCHANGED << trace, jambClient >>
    /\ plPc' = "returned"
    /\ UNCHANGED << mongo_uri, db, collector, extractor, collected, result >>
    /\ UNCHANGED << apiVars, ingVars, extractVars, chunkVars >>

\* No pipeline is run.
PipeIdle ==
    /\ plPc = "off"
    /\ mongo_uri = DEFAULT_MONGO_URI
    /\ db = None
    /\ jambClient = None
    /\ collector = None
    /\ extractor = None
    /\ trace = << >>
    /\ collected = NothingCollected
    /\ result = None

(***************************************************************************)
(* The chunker (Extracted-Data/chunk-text.py; embed_data.py:171-175 builds *)
(* the same splitter).  chunk_text_file hands the text to langchain's      *)
(* RecursiveCharacterTextSplitter with its default separators,             *)
(* keep_separator=True and strip_whitespace=True; the operators below      *)
(* follow that class statement by statement, with length_function=len.     *)
(***************************************************************************)
\* The default separators of RecursiveCharacterTextSplitter:
\* ["\n\n", "\n", " ", ""].
SEPARATORS == << << "\n", "\n" >>, << "\n" >>, << " " >>, << >> >>

\* The characters of the texts that are chunked.
TextChars == {"a", " ", "\n"}

\* The position of the first occurrence of sub in s at or after from, 0 when
\* there is none (str.find, re.search).
FirstOccurrence(s, sub, from) ==
    LET hits == {i \in from..(Len(s) - Len(sub) + 1) :
                    SubSeq(s, i, i + Len(sub) - 1) = sub}
    IN  IF hits = {} THEN 0 ELSE CHOOSE i \in hits : \A j \in hits : i <= j

\* "".join(docs)
RECURSIVE JoinAll(_)
JoinAll(docs) ==
    IF docs = << >> THEN << >> ELSE Head(docs) \o JoinAll(Tail(docs))

\* re.split("(separator)", text) with each separator joined to the piece
\* that follows it: the pieces after the first occurrence.
RECURSIVE PiecesAfter(_, _)
PiecesAfter(rest, separator) ==
    LET j == FirstOccurrence(rest, separator, 1)
    IN  IF j = 0
        THEN << separator \o rest >>
        ELSE << separator \o SubSeq(rest, 1, j - 1) >>
                 \o PiecesAfter(SubSeq(rest, j + Len(separator), Len(rest)), separator)

\* _split_text_with_regex(text, separator, keep_separator=True): list(text)
\* for the empty separator; empty pieces are dropped.
split_text_with_regex(t, separator) ==
    LET i == FirstOccurrence(t, separator, 1)
        splits ==
            IF separator = << >> THEN [k \in 1..Len(t) |-> << t[k] >>]
            ELSE IF i = 0 THEN << t >>
            ELSE << SubSeq(t, 1, i - 1) >>
                     \o PiecesAfter(SubSeq(t, i + Len(separator), Len(t)), separator)
        NotEmpty(piece) == piece /= << >>
    IN  SelectSeq(splits, NotEmpty)

\* TextSplitter._join_docs with separator "": the joined text stripped, None
\* when nothing is left.
join_docs(docs) ==
    LET joined == StrStrip(JoinAll(docs))
    IN  IF joined = << >> THEN NoneStr ELSE SomeStr(joined)

\* Mutant of ExceedsChunkSize: the size of the chunk being built is not
\* looked at.
ExceedsChunkSize_Never(total, len, size) == FALSE

\* TextSplitter._merge_splits: total + _len + separator_len > chunk_size, with
\* the chunk_size of chunk-text.py:9 and separator_len 0
ExceedsChunkSize(total, len, size) == total + len > size

\* TextSplitter._merge_splits: the while loop that drops pieces from the front
\* of current_doc until what is left is no longer than the overlap and leaves
\* room for the next piece.
RECURSIVE DropFromFront(_, _, _, _, _)
DropFromFront(current_doc, total, len, size, overlap) ==
    IF total > overlap \/ (ExceedsChunkSize(total, len, size) /\ total > 0)
    THEN DropFromFront(Tail(current_doc), total - Len(Head(current_doc)),
                       len, size, overlap)
    ELSE [current_doc |-> current_doc, total |-> total]

\* TextSplitter._merge_splits: the for loop from piece i on.
RECURSIVE MergeFrom(_, _, _, _, _, _, _)
MergeFrom(splits, i, docs, current_doc, total, size, overlap) ==
    IF i > Len(splits)
    THEN LET doc == join_docs(current_doc)
         IN  IF doc.given THEN Append(docs, doc.text) ELSE docs
    ELSE LET d == splits[i]
             flush == ExceedsChunkSize(total, Len(d), size) /\ current_doc /= << >>
             doc == join_docs(current_doc)
             kept == IF flush
                     THEN DropFromFront(current_doc, total, Len(d), size, overlap)
                     ELSE [current_doc |-> current_doc, total |-> total]
         IN  MergeFrom(splits, i + 1,
                       IF flush /\ doc.given THEN Append(docs, doc.text) ELSE docs,
                       Append(kept.current_doc, d), kept.total + Len(d),
                       size, overlap)

\* TextSplitter._merge_splits(splits, "")
merge_splits(splits, size, overlap) ==
    MergeFrom(splits, 1, << >>, << >>, 0, size, overlap)

\* RecursiveCharacterTextSplitter._split_text: the first separator of the list
\* that occurs in the text; the empty separator always does.
SeparatorIndex(t, separators) ==
    LET found == {k \in 1..Len(separators) :
                     \/ separators[k] = << >>
                     \/ FirstOccurrence(t, separators[k], 1) /= 0}
    IN  IF found = {} THEN Len(separators)
        ELSE CHOOSE k \in found : \A j \in found : k <= j

RECURSIVE split_text_from(_, _, _, _, _, _, _)
RECURSIVE split_text(_, _, _, _)

\* RecursiveCharacterTextSplitter._split_text: the for loop over the pieces
\* from piece i on.  A piece shorter than chunk_size is good; a longer one
\* is split again with the finer separators.
split_text_from(splits, i, good_splits, final_chunks, new_separators, size, overlap) ==
    IF i > Len(splits)
    THEN IF good_splits /= << >>
         THEN final_chunks \o merge_splits(good_splits, size, overlap)
         ELSE final_chunks
    ELSE LET piece == splits[i]
             merged == IF good_splits /= << >>
                       THEN final_chunks \o merge_splits(good_splits, size, overlap)
                       ELSE final_chunks
         IN  IF Len(piece) < size
             THEN split_text_from(splits, i + 1, Append(good_splits, piece),
                                  final_chunks, new_separators, size, overlap)
             ELSE split_text_from(splits, i + 1, << >>,
                                  merged \o (IF new_separators = << >>
                                             THEN << piece >>
                                             ELSE split_text(piece, new_separators,
                                                             size, overlap)),
                                  new_separators, size, overlap)

\* RecursiveCharacterTextSplitter._split_text(text, separators)
split_text(t, separators, size, overlap) ==
    LET k == SeparatorIndex(t, separators)
        separator == separators[k]
        new_separators == IF separator = << >> THEN << >>
                          ELSE SubSeq(separators, k + 1, Len(separators))
    IN  split_text_from(split_text_with_regex(t, separator), 1, << >>, << >>,
                        new_separators, size, overlap)

\* chunk-text.py:8-14  text_splitter.create_documents([text]): one Document
\* for each chunk of split_text, in that order
create_documents(t, size, overlap) == split_text(t, SEPARATORS, size, overlap)

\* chunk-text.py:5-14  the file is read and split
ChunkSplit ==
    /\ chPc = "start"
    /\ chunks' = create_documents(fileText, chunk_size, chunk_overlap)
    /\ chPc' = "write"
    /\ UNCHANGED << fileText, chunk_size, chunk_overlap, chunkFiles >>
    /\ UNCHANGED << apiVars, ingVars, extractVars, pipeVars >>

\* chunk-text.py:20-23  one pass of the loop that writes the chunk files
ChunkWriteFile ==
    /\ chPc = "write"
    /\ Len(chunkFiles) < Len(chunks)
    /\ chunkFiles' = Append(chunkFiles,
                            [ordinal |-> Len(chunkFiles) + 1,
                             content |-> chunks[Len(chunkFiles) + 1]])
    /\ UNCHANGED << chPc, fileText, chunk_size, chunk_overlap, chunks >>
    /\ UNCHANGED << apiVars, ingVars, extractVars, pipeVars >>

\* chunk-text.py:25-26
ChunkReturn ==
    /\ chPc = "write"
    /\ Len(chunkFiles) = Len(chunks)
    /\ chPc' = "returned"
    /\ UNCHANGED << fileText, chunk_size, chunk_overlap, chunks, chunkFiles >>
    /\ UNCHANGED << apiVars, ingVars, extractVars, pipeVars >>

\* No file is chunked.
ChunkIdle ==
    /\ chPc = "off"
    /\ fileText = << >>
    /\ chunk_size = 2
    /\ chunk_overlap = 1
    /\ chunks = << >>
    /\ chunkFiles = << >>

\* Only the API process or the ingestion script runs.
BatchIdle == ExtractIdle /\ PipeIdle /\ ChunkIdle

\* The API process is not part of a run of the ingestion script.
ApiOff ==
    /\ MONGO_URI = None
    /\ lifespanRun = TRUE
    /\ storeReachable = TRUE
    /\ rag_chain = None
    /\ embeddings = None
    /\ vectordb = None
    /\ llm = None
    /\ mongo_client = None
    /\ test_response = None
    /\ lsPc = "off"
    /\ startupError = "none"
    /\ clientOpened = 0
    /\ clientClosed = 0
    /\ loopOwner = 0
    /\ req = [r \in Requests |-> NoRequest]

IngestInit ==
    /\ ingUri \in {None, "set"}
    /\ ingPc = "idle"
    /\ chunksOf \in [Sources -> 1..MaxChunksPerDoc]
    /\ pending = << >>
    /\ collection = << >>
    /\ nextId = 1
    /\ runs = 0
    /\ okRuns = 0
    /\ failedRuns = 0
    /\ ingClient = None
    /\ ApiOff
    /\ BatchIdle

IngestNext ==
    \/ IngestStart
    \/ IngestLoadEmbeddings
    \/ IngestConnect
    \/ IngestInsert
    \/ IngestStorageFailure
    \/ IngestFinish

SpecIngest == IngestInit /\ [][IngestNext]_vars

(***************************************************************************)
(* The API process.                                                        *)
(***************************************************************************)
IngIdle ==
    /\ ingUri = None
    /\ ingPc = "off"
    /\ chunksOf = [s \in Sources |-> 1]
    /\ pending = << >>
    /\ collection = << >>
    /\ nextId = 1
    /\ runs = 0
    /\ okRuns = 0
    /\ failedRuns = 0
    /\ ingClient = None

Init ==
    /\ MONGO_URI \in {None, "set"}
    /\ lifespanRun \in BOOLEAN
    /\ storeReachable \in BOOLEAN
    /\ rag_chain = None
    /\ embeddings = None
    /\ vectordb = None
    /\ llm = None
    /\ mongo_client = None
    /\ test_response = None
    /\ lsPc = "loaded"
    /\ startupError = "none"
    /\ clientOpened = 0
    /\ clientClosed = 0
    /\ loopOwner = 0
    /\ req = [r \in Requests |-> NoRequest]
    /\ IngIdle
    /\ BatchIdle

Next ==
    \/ LifespanEnter
    \/ LoadEmbeddings
    \/ ConnectMongo
    \/ BuildVectorStore
    \/ InitLLM
    \/ ProbeLLM
    \/ BuildChain
    \/ Shutdown
    \/ StoreFlips
    \/ \E r \in Requests : Arrive(r)
    \/ \E r \in Requests : AskBegin(r)
    \/ \E r \in Requests : RetrieverReturns(r)
    \/ \E r \in Requests : LLMReturns(r)
    \/ \E r \in Requests : HealthBegin(r)
    \/ \E r \in Requests : PingReturns(r)

Spec == Init /\ [][Next]_vars

(***************************************************************************)
(* A run of load_and_extract_pdfs on its own.                              *)
(***************************************************************************)
ExtractInit ==
    /\ inputDirExists \in BOOLEAN
    /\ listing \in (IF inputDirExists THEN Listings ELSE {<< >>})
    /\ pdfFiles \in [PdfNames -> PdfOutcomes]
    /\ writeFails \in SUBSET PdfNames
    /\ exPc = "start"
    /\ nextFile = 1
    /\ extracted_documents = << >>
    /\ savedTexts = {}
    /\ ApiOff
    /\ IngIdle
    /\ PipeIdle
    /\ ChunkIdle

ExtractNext ==
    \/ ExtractStart
    \/ ExtractFile
    \/ ExtractReturn

SpecExtract == ExtractInit /\ [][ExtractNext]_vars

(***************************************************************************)
(* A run of JambDataPipeline.run_pipeline on its own.                      *)
(***************************************************************************)
\* jamb_data_pipeline.py:12-18, 83-87
PipeInit ==
    /\ plPc = "setup_database"
    /\ mongo_uri \in {DEFAULT_MONGO_URI, "MONGO_URI"}
    /\ db = None
    /\ jambClient = None
    /\ collector = None
    /\ extractor = None
    /\ trace = << >>
    /\ collected = NothingCollected
    /\ result = None
    /\ ApiOff
    /\ IngIdle
    /\ ExtractIdle
    /\ ChunkIdle

PipeNext ==
    \/ PipeConnect
    \/ PipeCreateCollections
    \/ PipeSetupCollector
    \/ PipeSetupExtractor
    \/ PipeCollectWeb
    \/ PipeCollectPdf
    \/ PipeOrganize
    \/ PipeFinally

SpecPipeline == PipeInit /\ [][PipeNext]_vars

(***************************************************************************)
(* A run of chunk_text_file on its own, for every text and every           *)
(* chunk_size and chunk_overlap with 0 < chunk_overlap < chunk_size.       *)
(***************************************************************************)
ChunkInit ==
    /\ chPc = "start"
    /\ fileText \in SeqsUpTo(TextChars, MaxTextLen)
    /\ chunk_size \in 2..MaxChunkSize
    /\ chunk_overlap \in 1..(chunk_size - 1)
    /\ chunks = << >>
    /\ chunkFiles = << >>
    /\ ApiOff
    /\ IngIdle
    /\ ExtractIdle
    /\ PipeIdle

ChunkNext ==
    \/ ChunkSplit
    \/ ChunkWriteFile
    \/ ChunkReturn

SpecChunk == ChunkInit /\ [][ChunkNext]_vars

(***************************************************************************)
(* Properties.                                                             *)
(***************************************************************************)
IsAsk(r) == req[r].kind = "ask"
DoneAsk(r) == req[r].kind = "ask" /\ req[r].pc = "done"
Handles == << rag_chain, embeddings, vectordb, llm, mongo_client >>
AllHandlesSet == \A i \in 1..Len(Handles) : Handles[i] /= None
NoHandleSet == \A i \in 1..Len(Handles) : Handles[i] = None

WhoAreYouBare ==
    << "w", "h", "o", " ", "a", "r", "e", " ", "y", "o", "u" >>
WhatAreYouBare ==
    << "w", "h", "a", "t", " ", "a", "r", "e", " ", "y", "o", "u" >>

\* The identity questions as the specification names them: the phrasings
\* "who are you" and "what are you", with or without the question mark of its
\* end-to-end scenario, whatever the case and the surrounding whitespace.
NamedIdentityQuestion(q) ==
    StrLower(StrStrip(q)) \in {WhoAreYouBare, WhatAreYouBare, WhoAreYouQ, WhatAreYouQ}

\* The identity questions with their question mark.
MarkedIdentityQuestion(q) ==
    StrLower(StrStrip(q)) \in {WhoAreYouQ, WhatAreYouQ}

\* The fixed answer was returned and neither the retriever nor the language
\* model was called.
InterceptedRun(r) ==
    /\ req[r].retrieverCalls = 0
    /\ req[r].llmCalls = 0
    /\ req[r].pc = "done" => /\ req[r].status = HTTP_OK
                             /\ req[r].answer = IDENTITY_ANSWER

\* C1 as stated: every /ask request whose question is one of the fixed
\* identity questions ("who are you", "what are you", case and surrounding
\* whitespace ignored) gets the hardcoded self-description, with zero calls to
\* the retriever and the language model.
C1_IdentityAlwaysIntercepted ==
    \A r \in Requests :
        (IsAsk(r) /\ NamedIdentityQuestion(req[r].question)) => InterceptedRun(r)

\* C1 amended: on an initialized pipeline, every /ask request whose question,
\* lower-cased and stripped, is "who are you?" or "what are you?" (question
\* mark included) gets the hardcoded self-description; for such a question the
\* retriever and the language model are never called, initialized or not.
C1_MarkedIdentityIntercepted ==
    \A r \in Requests :
        (IsAsk(r) /\ MarkedIdentityQuestion(req[r].question)) =>
            /\ req[r].retrieverCalls = 0
            /\ req[r].llmCalls = 0
            /\ req[r].pc \in {"idle", "queued", "done"}
            /\ (req[r].pc = "done" /\ rag_chain /= None) =>
                   /\ req[r].status = HTTP_OK
                   /\ req[r].answer = IDENTITY_ANSWER

C1_Witness ==
    \E r \in Requests :
        /\ DoneAsk(r)
        /\ rag_chain /= None
        /\ req[r].question = QWhatPadded
        /\ req[r].custom_intro = SomeStr(IntroHello)
        /\ req[r].status = HTTP_OK
        /\ req[r].answer = IDENTITY_ANSWER
        /\ req[r].retrieverCalls = 0

\* A run of /ask on a normal question whose generation succeeded.
GeneratedRun(r) ==
    /\ DoneAsk(r)
    /\ req[r].generation = "ok"
    /\ req[r].status = HTTP_OK

\* C2 as stated: on a normal question whose generation succeeds, a supplied
\* custom_intro, whatever its value, gives custom_intro + "\n\n" + generated
\* answer, and no custom_intro gives the generated answer unchanged.
C2_EverySuppliedIntroPrepended ==
    \A r \in Requests :
        GeneratedRun(r) =>
            IF req[r].custom_intro.given
            THEN req[r].answer =
                     req[r].custom_intro.text \o BLANK_LINE \o req[r].generated
            ELSE req[r].answer = req[r].generated

\* C2 amended: a supplied, non-empty custom_intro gives custom_intro + "\n\n"
\* + generated answer; no custom_intro, or the empty string, gives the
\* generated answer unchanged.
C2_NonEmptyIntroPrepended ==
    \A r \in Requests :
        GeneratedRun(r) =>
            IF req[r].custom_intro.given /\ Len(req[r].custom_intro.text) > 0
            THEN req[r].answer =
                     req[r].custom_intro.text \o BLANK_LINE \o req[r].generated
            ELSE req[r].answer = req[r].generated

C2_Witness ==
    \E r \in Requests :
        /\ GeneratedRun(r)
        /\ req[r].question = QNormal
        /\ req[r].custom_intro = SomeStr(IntroHello)
        /\ req[r].generated = Gen1978
        /\ req[r].answer = IntroHello \o << "\n", "\n" >> \o Gen1978

\* C3: with rag_chain None every /ask request, whatever its question and
\* custom_intro, is answered 503 and never reaches the chain or a 200 answer;
\* with the pipeline initialized, an error raised while processing the request
\* is answered 500, never 503.
C3_NotReadyVersusProcessingError ==
    \A r \in Requests :
        IsAsk(r) =>
            /\ rag_chain = None =>
                   /\ req[r].pc \in {"idle", "queued", "done"}
                   /\ req[r].pc = "done" => req[r].status = HTTP_NOT_READY
            /\ (rag_chain /= None /\ req[r].pc = "done"
                    /\ "raised" \in {req[r].retrieval, req[r].generation}) =>
                   req[r].status = HTTP_PROCESSING_ERROR
            /\ (rag_chain /= None /\ req[r].pc = "done") =>
                   req[r].status /= HTTP_NOT_READY

C3_Witness ==
    \E r \in Requests :
        /\ DoneAsk(r)
        /\ rag_chain = None
        /\ req[r].question = QWhoCapital
        /\ req[r].custom_intro = SomeStr(IntroHello)
        /\ req[r].status = HTTP_NOT_READY

\* C4: when the store is unreachable at query time, after a successful
\* startup, /health answers (it does not fail) with the store status
\* "disconnected", and /ask on a normal question answers with the "not ready"
\* error, never with a 200.
C4_StoreDownReported ==
    \A r \in Requests :
        (req[r].pc = "done" /\ req[r].storeSeen = "down" /\ rag_chain /= None) =>
            /\ req[r].kind = "health" =>
                   /\ req[r].status = HTTP_OK
                   /\ req[r].mongodb_status = "disconnected"
            /\ req[r].kind = "ask" => req[r].status = HTTP_NOT_READY

C6_ClientReleasedOnce ==
    /\ clientOpened <= 1
    /\ clientClosed <= clientOpened
    /\ lsPc \in {"failed", "stopped"} => clientClosed = clientOpened

\* C7: after any number (>= 1) of runs of ingest_data_to_mongodb over the same
\* documents against a reachable store, the store holds for each source the
\* number of chunks a single run stores.
C7_ReingestionIdempotent ==
    (ingPc = "idle" /\ okRuns >= 1 /\ failedRuns = 0) =>
        \A s \in Sources : StoredCount(collection, s) = chunksOf[s]

\* C8: after a storage failure while the chunks are written, every source has
\* all of its chunks in the store or none, and a run after the failure leaves
\* the store as a single successful run does.
C8_AllOrNothingPerSource ==
    /\ (ingPc = "idle" /\ okRuns = 0 /\ failedRuns >= 1) =>
           \A s \in Sources : StoredCount(collection, s) \in {0, chunksOf[s]}
    /\ (ingPc = "idle" /\ okRuns = 1 /\ failedRuns >= 1) =>
           \A s \in Sources : StoredCount(collection, s) = chunksOf[s]

\* C9: in every /ask run the language model is invoked at most once, only
\* after the retrieval has returned successfully, and never when the
\* retrieval failed.
C9_RetrievalBeforeSynthesis ==
    \A r \in Requests :
        /\ req[r].retrieverCalls <= 1
        /\ req[r].llmCalls <= 1
        /\ req[r].llmCalls = 1 => (req[r].retrieverCalls = 1 /\ req[r].retrieval = "ok")
        /\ req[r].retrieval = "raised" =>
               (req[r].llmCalls = 0 /\ req[r].generation = "none")
        /\ req[r].pc = "retrieving" => req[r].llmCalls = 0
        /\ req[r].pc = "synthesizing" => req[r].retrieval = "ok"
        /\ req[r].generation /= "none" => req[r].llmCalls = 1

C9_Witness ==
    \E r, q \in Requests :
        /\ DoneAsk(r)
        /\ req[r].retrieval = "raised"
        /\ req[r].llmCalls = 0
        /\ req[r].status = HTTP_PROCESSING_ERROR
        /\ DoneAsk(q)
        /\ req[q].retrieval = "ok"
        /\ req[q].llmCalls = 1

\* C10: while an /ask request waits on the retriever or the language model,
\* any other request that has arrived can start being handled without waiting
\* for the slow request to finish.
C10_SlowRequestDoesNotStall ==
    \A r, q \in Requests :
        (r /= q /\ req[r].pc \in {"retrieving", "synthesizing"}
                /\ req[q].pc = "queued") =>
            ENABLED (AskBegin(q) \/ HealthBegin(q))

\* An /ask run that is waiting on the retriever or on the language model.
WaitingOnExternalCall(r) ==
    IsAsk(r) /\ req[r].pc \in {"retrieving", "synthesizing"}

\* C11: every external call on the query path is bounded by a timeout: an /ask
\* run that waits on the retriever or on the language model can always take
\* the step that ends the wait, even when the call itself never returns.
C11_ExternalCallsBounded ==
    \A r \in Requests :
        WaitingOnExternalCall(r) => ENABLED (RetrieverReturns(r) \/ LLMReturns(r))

\* The chain invocation of run r raised.
InvocationRaised(r) ==
    req[r].retrieval = "raised" \/ req[r].generation = "raised"

\* The chain invocation of run r returned without answer text.
NoAnswerText(r) ==
    \/ req[r].generation = "nokey"
    \/ req[r].generation = "ok" /\ req[r].generated = << >>

\* C12: every /ask run whose chain invocation failed or produced
\* no answer text is answered with an error, never with status 200.
C12_FailureOrNoAnswerIsError ==
    \A r \in Requests :
        (DoneAsk(r) /\ (InvocationRaised(r) \/ NoAnswerText(r))) =>
            /\ req[r].status /= HTTP_OK
            /\ req[r].error /= "none"

\* Two /ask runs that were given the same request and failed at the same
\* stage of the chain: they differ only in the exception that was raised.
DifferOnlyInException(r, q) ==
    /\ DoneAsk(r) /\ DoneAsk(q)
    /\ req[r].question = req[q].question
    /\ req[r].custom_intro = req[q].custom_intro
    /\ InvocationRaised(r) /\ InvocationRaised(q)
    /\ req[r].retrieval = req[q].retrieval
    /\ req[r].generation = req[q].generation

\* C13: /ask error responses never leak internal details: two runs that differ
\* only in the content of the exception get the identical error response.
C13_ErrorResponseHidesException ==
    \A r, q \in Requests :
        DifferOnlyInException(r, q) =>
            /\ req[r].status = req[q].status
            /\ req[r].detail = req[q].detail

\* A step of a request: its arrival or a step of its handler.
RequestStep == req' /= req

\* The steps of the startup code that assign a module-level handle.
HandleWritingSteps == {"embeddings", "mongo", "vectordb", "llm", "chain"}

\* C16: every step of an /ask or /health request leaves rag_chain, embeddings,
\* vectordb, llm and mongo_client unchanged; a handle changes only in a step of
\* the startup code.
C16_HandlersLeaveHandlesUnchanged ==
    [][ /\ RequestStep => Handles' = Handles
        /\ Handles' /= Handles =>
               (lsPc \in HandleWritingSteps /\ lsPc' /= lsPc /\ ~RequestStep) ]_vars

\* An /ask run answered from the chain and a /health run have both ended on a
\* server whose handles are all set.
C16_Witness ==
    \E r, q \in Requests :
        /\ DoneAsk(r)
        /\ req[r].generation = "ok"
        /\ req[q].kind = "health"
        /\ req[q].pc = "done"
        /\ req[q].status = HTTP_OK
        /\ AllHandlesSet

\* C17: rag_chain is set only if embeddings, mongo_client, vectordb and llm are
\* all set and the probe of the language model succeeded; after a failed
\* startup rag_chain is None, whatever handles were set before the failure.
C17_ChainOnlyAfterAllHandlesAndProbe ==
    /\ rag_chain /= None =>
           /\ embeddings /= None
           /\ mongo_client /= None
           /\ vectordb /= None
           /\ llm /= None
           /\ test_response /= None
    /\ lsPc = "failed" => rag_chain = None

\* The probe failed: the startup ended with every earlier handle set and no
\* chain.
C17_Witness ==
    /\ lsPc = "failed"
    /\ startupError = "probe"
    /\ test_response = None
    /\ embeddings /= None
    /\ mongo_client /= None
    /\ vectordb /= None
    /\ llm /= None
    /\ rag_chain = None

\* The file was read without an exception.
ExtractionSucceeded(filename) ==
    EndsWith(filename, DOT_PDF) /\ ~pdfFiles[filename].raises

\* C14: load_and_extract_pdfs never ends with an exception, and it returns
\* exactly one Document for each PDF file whose extraction succeeded, in
\* listing order, whatever happened to the other files.
C14_OneDocumentPerExtractedFile ==
    /\ exPc /= "raised"
    /\ exPc = "returned" =>
           [i \in 1..Len(extracted_documents) |->
               extracted_documents[i].metadata.source]
               = SelectSeq(listing, ExtractionSucceeded)

CollectionSteps == {"collect_web_data", "collect_pdf_data", "organize_data"}

\* The setup calls in the order run_pipeline makes them, all succeeded.
SetupSucceeded ==
    << Call("connect", TRUE), Call("create_data_collections", TRUE),
       Call("setup_collector", TRUE), Call("setup_extractor", TRUE) >>

Called(name) == \E i \in 1..Len(trace) : trace[i].call = name

CallFailed(name) ==
    \E i \in 1..Len(trace) : trace[i].call = name /\ ~trace[i].ok

\* C18: a collection step (collect_web_data, collect_pdf_data, organize_data)
\* is called only after connect, create_data_collections, setup_collector and
\* setup_extractor were called in that order and all succeeded; a run in which
\* connect or create_data_collections failed returns False with no collection
\* step called and with close_connection called on the JambDb as its last call.
C18_CollectOnlyAfterSetup ==
    /\ (\E step \in CollectionSteps : Called(step)) =>
           /\ Len(trace) > Len(SetupSucceeded)
           /\ SubSeq(trace, 1, Len(SetupSucceeded)) = SetupSucceeded
    /\ (plPc = "returned"
          /\ (CallFailed("connect") \/ CallFailed("create_data_collections"))) =>
           /\ result = FALSE
           /\ \A step \in CollectionSteps : ~Called(step)
           /\ db /= None
           /\ trace[Len(trace)] = Call("close_connection", TRUE)
           /\ jambClient /= "open"

\* The store was reached, creating the collections failed, and the run
\* returned False after closing the connection.
C18_Witness ==
    /\ plPc = "returned"
    /\ CallFailed("create_data_collections")
    /\ result = FALSE
    /\ jambClient = "closed"
    /\ trace[Len(trace)].call = "close_connection"

\* The text has been split.
ChunksMade == chPc \in {"write", "returned"}

\* Every chunk is no longer than chunk_size.
ChunksWithinSize == \A i \in 1..Len(chunks) : Len(chunks[i]) <= chunk_size

\* The chunks from chunk i on occur in t one after the other, the first of
\* them at or after position from, each no earlier than the one before it.
\* (Two chunks may start at the same place: the whitespace that is stripped
\* from the front of a chunk is kept in the total that decides the overlap.)
RECURSIVE OccurInOrder(_, _, _, _)
OccurInOrder(t, cs, i, from) ==
    IF i > Len(cs) THEN TRUE
    ELSE LET at == FirstOccurrence(t, cs[i], from)
         IN  at /= 0 /\ OccurInOrder(t, cs, i + 1, at)

\* The chunks are pieces of the text, in the order in which they occur in it.
ChunksInDocumentOrder == OccurInOrder(fileText, chunks, 1, 1)

\* C15 (as stated): the chunks are no longer than chunk_size and in document
\* order, and a text shorter than chunk_size yields exactly one chunk.
C15_ShortTextYieldsOneChunk ==
    ChunksMade =>
        /\ ChunksWithinSize
        /\ ChunksInDocumentOrder
        /\ Len(fileText) < chunk_size => Len(chunks) = 1

\* C15 (amended): the chunks are no longer than chunk_size, not empty, and in
\* document order; a text shorter than chunk_size yields exactly one chunk,
\* the text without its leading and trailing whitespace, when it has a
\* character that is not whitespace, and no chunk when it has none.
C15_ShortTextYieldsStrippedChunk ==
    ChunksMade =>
        /\ ChunksWithinSize
        /\ \A i \in 1..Len(chunks) : chunks[i] /= << >>
        /\ ChunksInDocumentOrder
        /\ Len(fileText) < chunk_size =>
               chunks = IF StrStrip(fileText) = << >> THEN << >> ELSE << StrStrip(fileText) >>

\* A text shorter than chunk_size that has whitespace around its letters was
\* chunked: the one chunk is the stripped text, and it was written to its file.
C15_Witness ==
    /\ chPc = "returned"
    /\ Len(fileText) < chunk_size
    /\ StrStrip(fileText) /= fileText
    /\ chunks = << StrStrip(fileText) >>
    /\ Len(chunkFiles) = 1

====
